---- MODULE Spec2Model ----
(***************************************************************************)
(* reolink-ctl: the VOD trigger codec, the recording selector and the      *)
(* download loop of the `download` sub-command                             *)
(* (src/reolink_ctl/vod.py, src/reolink_ctl/commands/download.py,          *)
(* src/reolink_ctl/connection.py).                                         *)
(*                                                                         *)
(* A VOD_trigger value (an IntFlag of the camera library, one bit per      *)
(* detection kind) is modelled as the set of its flag names: `|` is \cup,  *)
(* `&` is \cap, NONE is {} and truthiness is "not empty".                  *)
(* A file name is a sequence of one-character strings, so that rsplit,     *)
(* split and indexing are computed as the code computes them.              *)
(***************************************************************************)
EXTENDS Integers, Sequences, FiniteSets, TLC

VARIABLES
    vods,           \* what request_vod_files returns (the camera's recordings)
    trigger_filter, \* build_trigger_filter's result: None or Some(trigger set)
    latest,         \* args.latest: None or Some(integer)
    dry_run,        \* args.dry_run
    progress,       \* args.progress
    pc,             \* position of _run / connect
    filtered,       \* the local `filtered` of _run
    i,              \* enumerate index of the download loop (1-based)
    downloaded,     \* the local `downloaded`
    failed,         \* the local `failed`
    dl,             \* the stream handle: "none", "open" or "closed"
    received,       \* the local `received`
    files,          \* the file system under output_dir: path -> file
    dirs,           \* the directories that exist
    camlog,         \* the calls issued to the Host, in order
    outcome,        \* per index of `filtered`: "skipped", "downloaded" or "failed"
    last,           \* how the recording settled last went: cause, bytes, counters before
    summary,        \* whether "Done. Downloaded: .., Failed: .." was printed
    status,         \* how the invocation ended: "running", "ok", "error"
    run,            \* number of the invocation (1, 2, ..)
    prev,           \* what the previous invocation left on disk, and how it ended
    call,           \* pure-function harness: the function applied and its input
    ret             \* pure-function harness: the value returned

orchVars == <<vods, trigger_filter, latest, dry_run, progress, pc, filtered, i,
              downloaded, failed, dl, received, files, dirs, camlog, outcome,
              last, summary, status, run, prev>>
pureVars == <<call, ret>>
vars == <<vods, trigger_filter, latest, dry_run, progress, pc, filtered, i,
          downloaded, failed, dl, received, files, dirs, camlog, outcome,
          last, summary, status, run, prev, call, ret>>

(***************************************************************************)
(* Bounds of the model.                                                    *)
(***************************************************************************)
MaxVods == 2
MaxRuns == 2
MaxList == 3

(***************************************************************************)
(* VOD_trigger and the trigger codec (vod.py).                             *)
(***************************************************************************)
NONE == {}
PERSON == {"PERSON"}
VEHICLE == {"VEHICLE"}
PET == {"PET"}
MOTION == {"MOTION"}
TIMER == {"TIMER"}
AllFlags == PERSON \cup VEHICLE \cup PET \cup MOTION \cup TIMER
TriggerSets == SUBSET AllFlags

\* Optional values: None is the empty tuple, a present value x is <<x>>
None == <<>>
Some(x) == <<x>>
Val(o) == o[1]

\* variant of TRIGGER_NAMES: motion comes first
TRIGGER_NAMES_motionfirst == << <<MOTION, "motion">>, <<PERSON, "person">>,
                                <<VEHICLE, "vehicle">>, <<PET, "pet">> >>

\* TRIGGER_NAMES, in the insertion order the dict iterates in
TRIGGER_NAMES == << <<PERSON, "person">>, <<VEHICLE, "vehicle">>,
                    <<PET, "pet">>, <<MOTION, "motion">> >>

\* int(c, 16) of a one-character string; -1 stands for ValueError. int()
\* takes the ASCII hex digits and also every Unicode decimal digit:
\* "U+0664" is the one character ARABIC-INDIC DIGIT FOUR, which it reads as 4.
HexVal(c) ==
    CASE c = "0" -> 0 [] c = "1" -> 1 [] c = "2" -> 2 [] c = "3" -> 3
      [] c = "4" -> 4 [] c = "5" -> 5 [] c = "6" -> 6 [] c = "7" -> 7
      [] c = "8" -> 8 [] c = "9" -> 9
      [] c \in {"a", "A"} -> 10 [] c \in {"b", "B"} -> 11
      [] c \in {"c", "C"} -> 12 [] c \in {"d", "D"} -> 13
      [] c \in {"e", "E"} -> 14 [] c \in {"f", "F"} -> 15
      [] c = "U+0664" -> 4
      [] OTHER -> -1

\* n & mask # 0 for a one-bit mask (a power of two)
BitAnd(n, mask) == (n \div mask) % 2 = 1

\* index of the last occurrence of c in s, 0 when there is none
LastIndexOf(s, c) ==
    LET hits == {k \in 1..Len(s) : s[k] = c}
    IN IF hits = {} THEN 0 ELSE CHOOSE k \in hits : \A j \in hits : j <= k

\* index of the first occurrence of c in s, 0 when there is none
FirstIndexOf(s, c) ==
    LET hits == {k \in 1..Len(s) : s[k] = c}
    IN IF hits = {} THEN 0 ELSE CHOOSE k \in hits : \A j \in hits : k <= j

\* s.rsplit(c, 1)[-1]
RSplitLast(s, c) == SubSeq(s, LastIndexOf(s, c) + 1, Len(s))

\* s.rsplit(c, 1)[0]
RSplitFirst(s, c) ==
    IF LastIndexOf(s, c) = 0 THEN s ELSE SubSeq(s, 1, LastIndexOf(s, c) - 1)

\* s.split(c)
RECURSIVE Split(_, _)
Split(s, c) ==
    LET k == FirstIndexOf(s, c)
    IN IF k = 0 THEN <<s>>
       ELSE <<SubSeq(s, 1, k - 1)>> \o Split(SubSeq(s, k + 1, Len(s)), c)

\* variant of DecodeNibbles: the person and vehicle bits of T exchanged
DecodeNibbles_swapped(nib_t, nib_u, nib_r) ==
    (IF BitAnd(nib_t, 1) THEN PERSON ELSE NONE)
    \cup (IF BitAnd(nib_t, 4) THEN VEHICLE ELSE NONE)
    \cup (IF BitAnd(nib_u, 8) THEN PET ELSE NONE)
    \cup (IF BitAnd(nib_u, 1) THEN TIMER ELSE NONE)
    \cup (IF BitAnd(nib_r, 8) THEN MOTION ELSE NONE)

\* the decode of the three nibbles, vod.py lines 74-86
DecodeNibbles(nib_t, nib_u, nib_r) ==
    (IF BitAnd(nib_t, 4) THEN PERSON ELSE NONE)
    \cup (IF BitAnd(nib_t, 1) THEN VEHICLE ELSE NONE)
    \cup (IF BitAnd(nib_u, 8) THEN PET ELSE NONE)
    \cup (IF BitAnd(nib_u, 1) THEN TIMER ELSE NONE)
    \cup (IF BitAnd(nib_r, 8) THEN MOTION ELSE NONE)

\* the position (1-based) of hex_field[4]
NibbleOffset == 5

parse_triggers_from_filename(filename) ==
    LET basename == RSplitFirst(RSplitLast(filename, "/"), ".")
        parts == Split(basename, "_")
    IN IF Len(parts) < 6 THEN NONE
       ELSE LET hex_field == parts[Len(parts) - 1]
            IN IF Len(hex_field) < 7 THEN NONE
               ELSE LET nib_t == HexVal(hex_field[NibbleOffset])
                        nib_u == HexVal(hex_field[NibbleOffset + 1])
                        nib_r == HexVal(hex_field[NibbleOffset + 2])
                    IN IF nib_t = -1 \/ nib_u = -1 \/ nib_r = -1 THEN NONE
                       ELSE DecodeNibbles(nib_t, nib_u, nib_r)

\* variant of get_vod_triggers: the file name is decoded always and merged
get_vod_triggers_merged(vod) ==
    vod.triggers \cup parse_triggers_from_filename(vod.file_name)

get_vod_triggers(vod) ==
    IF vod.triggers = NONE THEN parse_triggers_from_filename(vod.file_name)
    ELSE vod.triggers

\* variant of SelectVods: a recording must carry every bit of the mask
RECURSIVE SelectVods_all(_, _)
SelectVods_all(vs, f) ==
    IF vs = <<>> THEN <<>>
    ELSE (IF f \subseteq get_vod_triggers(Head(vs)) THEN <<Head(vs)>> ELSE <<>>)
         \o SelectVods_all(Tail(vs), f)

\* the list comprehension of filter_vods
RECURSIVE SelectVods(_, _)
SelectVods(vs, f) ==
    IF vs = <<>> THEN <<>>
    ELSE (IF get_vod_triggers(Head(vs)) \cap f # {} THEN <<Head(vs)>> ELSE <<>>)
         \o SelectVods(Tail(vs), f)

filter_vods(vs, f) == IF f = None THEN vs ELSE SelectVods(vs, Val(f))

\* variant of build_trigger_filter: --all yields to an individual selection
build_trigger_filter_nooverride(person, vehicle, pet, motion, all_triggers) ==
    LET trigger == (IF person THEN PERSON ELSE NONE)
                   \cup (IF vehicle THEN VEHICLE ELSE NONE)
                   \cup (IF pet THEN PET ELSE NONE)
                   \cup (IF motion THEN MOTION ELSE NONE)
    IN IF trigger # NONE THEN Some(trigger) ELSE None

\* variant of build_trigger_filter: an empty selection gives the empty mask
build_trigger_filter_emptymask(person, vehicle, pet, motion, all_triggers) ==
    IF all_triggers THEN None
    ELSE Some((IF person THEN PERSON ELSE NONE)
              \cup (IF vehicle THEN VEHICLE ELSE NONE)
              \cup (IF pet THEN PET ELSE NONE)
              \cup (IF motion THEN MOTION ELSE NONE))

build_trigger_filter(person, vehicle, pet, motion, all_triggers) ==
    IF all_triggers THEN None
    ELSE LET trigger == (IF person THEN PERSON ELSE NONE)
                        \cup (IF vehicle THEN VEHICLE ELSE NONE)
                        \cup (IF pet THEN PET ELSE NONE)
                        \cup (IF motion THEN MOTION ELSE NONE)
         IN IF trigger # NONE THEN Some(trigger) ELSE None

(***************************************************************************)
(* datetime values: [year, month, day, hour, minute, second].              *)
(***************************************************************************)
Datetime(y, mo, d, h, mi, s) ==
    [year |-> y, month |-> mo, day |-> d, hour |-> h, minute |-> mi, second |-> s]

\* a < b on datetimes (the order sorted() uses on the start_time key)
DtLess(a, b) ==
    LET ka == <<a.year, a.month, a.day, a.hour, a.minute, a.second>>
        kb == <<b.year, b.month, b.day, b.hour, b.minute, b.second>>
    IN \E k \in 1..6 : ka[k] < kb[k] /\ \A j \in 1..(k - 1) : ka[j] = kb[j]

\* zero-padded two-digit decimal, as %H, %M, %S, %m, %d print it
Pad2(n) == IF n < 10 THEN "0" \o ToString(n) ELSE ToString(n)

\* zero-padded four-digit decimal, as %Y prints it
Pad4(n) ==
    IF n < 10 THEN "000" \o ToString(n)
    ELSE IF n < 100 THEN "00" \o ToString(n)
    ELSE IF n < 1000 THEN "0" \o ToString(n)
    ELSE ToString(n)

\* dt.strftime("%H%M%S")
StrfHMS(dt) == Pad2(dt.hour) \o Pad2(dt.minute) \o Pad2(dt.second)

\* dt.strftime("%Y-%m-%d")
StrfDate(dt) == Pad4(dt.year) \o "-" \o Pad2(dt.month) \o "-" \o Pad2(dt.day)

\* sorted(vods, key=start_time, reverse=True): stable, so recordings with equal
\* start_time keep their input order. Insert x after every element that does
\* not start earlier than x.
RECURSIVE InsertDesc(_, _)
InsertDesc(sorted, x) ==
    IF sorted = <<>> THEN <<x>>
    ELSE IF DtLess(Head(sorted).start_time, x.start_time)
         THEN <<x>> \o sorted
         ELSE <<Head(sorted)>> \o InsertDesc(Tail(sorted), x)

\* variant of SortedDesc: the input order is kept
SortedDesc_unsorted(vs) == vs

RECURSIVE SortedDesc(_)
SortedDesc(vs) ==
    IF vs = <<>> THEN <<>>
    ELSE InsertDesc(SortedDesc(SubSeq(vs, 1, Len(vs) - 1)), vs[Len(vs)])

\* s[:n] of Python: a negative n counts from the end
SliceTo(s, n) ==
    IF n >= 0 THEN SubSeq(s, 1, IF n < Len(s) THEN n ELSE Len(s))
    ELSE SubSeq(s, 1, IF Len(s) + n > 0 THEN Len(s) + n ELSE 0)

apply_latest(vs, lim) ==
    IF lim = None THEN vs ELSE SliceTo(SortedDesc(vs), Val(lim))

RECURSIVE FirstName(_, _)
FirstName(names, triggers) ==
    IF names = <<>> THEN "recording"
    ELSE IF triggers \cap Head(names)[1] # {} THEN Head(names)[2]
    ELSE FirstName(Tail(names), triggers)

get_primary_trigger_name(triggers) == FirstName(TRIGGER_NAMES, triggers)

make_output_filename(vod) ==
    get_primary_trigger_name(get_vod_triggers(vod))
    \o "_" \o StrfHMS(vod.start_time) \o "_" \o StrfHMS(vod.end_time) \o ".mp4"

(***************************************************************************)
(* time_utils.py. A point in time is [ord, sec]: the proleptic ordinal of   *)
(* its day (0001-01-01 is 1) and the second of that day; a timedelta is     *)
(* [days, seconds], normalised as timedelta normalises it.                  *)
(***************************************************************************)
\* what \d matches: the ASCII digits and the decimal digits of other
\* scripts; "U+0665" is the one character ARABIC-INDIC DIGIT FIVE
DigitVal(c) ==
    CASE c = "0" -> 0 [] c = "1" -> 1 [] c = "2" -> 2 [] c = "3" -> 3
      [] c = "4" -> 4 [] c = "5" -> 5 [] c = "6" -> 6 [] c = "7" -> 7
      [] c = "8" -> 8 [] c = "9" -> 9 [] c = "U+0665" -> 5
      [] OTHER -> -1

\* int(match.group(1)) of a string of digits
RECURSIVE IntOfDigits(_)
IntOfDigits(ds) ==
    IF ds = <<>> THEN 0
    ELSE 10 * IntOfDigits(SubSeq(ds, 1, Len(ds) - 1)) + DigitVal(ds[Len(ds)])

\* re.fullmatch(r"(\d+)([mhd])", since_str): None, or <<group(1), group(2)>>
SinceMatch(since_str) ==
    IF /\ Len(since_str) >= 2
       /\ since_str[Len(since_str)] \in {"m", "h", "d"}
       /\ \A k \in 1..(Len(since_str) - 1) : DigitVal(since_str[k]) # -1
    THEN Some(<<SubSeq(since_str, 1, Len(since_str) - 1),
                since_str[Len(since_str)]>>)
    ELSE None

SecondsPerDay == 86400
MaxDeltaDays == 999999999

\* an exception leaving a function, and the test for it
Raised(e) == [raised |-> e]
IsRaised(x) == "raised" \in DOMAIN x

\* timedelta(seconds=amount * multiplier) for the multiplier of the unit
\* (60, 3600, 86400), as days and seconds of the day; OverflowError beyond
\* 999999999 days
SinceDelta(amount, unit) ==
    LET perDay == CASE unit = "m" -> SecondsPerDay \div 60
                    [] unit = "h" -> SecondsPerDay \div 3600
                    [] unit = "d" -> 1
        perUnit == SecondsPerDay \div perDay
    IN IF amount \div perDay > MaxDeltaDays THEN Raised("OverflowError")
       ELSE [days |-> amount \div perDay, seconds |-> (amount % perDay) * perUnit]

\* end - delta on datetimes; OverflowError before 0001-01-01 (datetime.min)
MinusDelta(end, delta) ==
    LET start == IF end.sec >= delta.seconds
                 THEN [ord |-> end.ord - delta.days,
                       sec |-> end.sec - delta.seconds]
                 ELSE [ord |-> end.ord - delta.days - 1,
                       sec |-> end.sec + SecondsPerDay - delta.seconds]
    IN IF start.ord < 1 THEN Raised("OverflowError") ELSE start

\* parse_since(since_str) with datetime.now() returning now: the pair
\* [start, end], or the exception raised
parse_since(since_str, now) ==
    LET match == SinceMatch(since_str)
    IN IF match = None THEN Raised("ValueError")
       ELSE LET amount == IntOfDigits(Val(match)[1])
                unit == Val(match)[2]
            IN IF amount <= 0 THEN Raised("ValueError")
               ELSE LET delta == SinceDelta(amount, unit)
                    IN IF IsRaised(delta) THEN delta
                       ELSE IF IsRaised(MinusDelta(now, delta))
                       THEN MinusDelta(now, delta)
                       ELSE [start |-> MinusDelta(now, delta), end |-> now]

\* datetime.strptime(s, "%Y-%m-%d").date() as the ordinal of the day, for
\* the date strings used here; ValueError for a string of another format
Strptime(s) ==
    CASE s = "2026-02-01" -> 739648
      [] s = "2026-02-10" -> 739657
      [] s = "2026-02-20" -> 739667
      [] OTHER -> -1

\* datetime(d.year, d.month, d.day, 0, 0, 0) .. datetime(.., 23, 59, 59)
DayRange(d1, d2) ==
    [start |-> [ord |-> d1, sec |-> 0],
     end |-> [ord |-> d2, sec |-> SecondsPerDay - 1]]

\* parse_date_range(date_str, from_str, to_str) with date.today() the day
\* of now; the arguments are Optional strings
parse_date_range(date_str, from_str, to_str, now) ==
    IF date_str # None
    THEN IF Val(date_str) = "today" THEN DayRange(now.ord, now.ord)
         ELSE IF Val(date_str) = "yesterday"
         THEN DayRange(now.ord - 1, now.ord - 1)
         ELSE IF Strptime(Val(date_str)) = -1 THEN Raised("ValueError")
         ELSE DayRange(Strptime(Val(date_str)), Strptime(Val(date_str)))
    ELSE IF from_str # None /\ to_str # None
    THEN IF Strptime(Val(from_str)) = -1 \/ Strptime(Val(to_str)) = -1
         THEN Raised("ValueError")
         ELSE DayRange(Strptime(Val(from_str)), Strptime(Val(to_str)))
    ELSE DayRange(now.ord, now.ord)

(***************************************************************************)
(* The camera: the recordings request_vod_files can return, and the size   *)
(* of the stream download_vod opens for each.                              *)
(***************************************************************************)
\* iter_chunked(65536)
ChunkSize == 65536

\* "Mp4Record/" + tag + "_1_2_3_0_" + hex + "_A.mp4" as characters
CamName(tag, hex) ==
    <<"M", "/", "R", tag, "_", "1", "_", "2", "_", "3", "_", "0", "_">>
    \o hex \o <<"_", "A", ".", "m", "p", "4">>

HexPersonMotion == <<"6", "D", "2", "8", "C", "0", "8", "0", "0", "0">>
HexShort == <<"6", "D", "2", "8">>

\* Two recordings of the same day and time span with the same primary
\* trigger, one of another day, one whose triggers come from its file name,
\* and one that cannot be classified.
VodA ==
    [start_time |-> Datetime(2026, 2, 20, 8, 0, 0),
     end_time |-> Datetime(2026, 2, 20, 8, 5, 0),
     triggers |-> PERSON, file_name |-> CamName("a", HexShort), length |-> 1]
VodB ==
    [start_time |-> Datetime(2026, 2, 20, 8, 0, 0),
     end_time |-> Datetime(2026, 2, 20, 8, 5, 0),
     triggers |-> PERSON \cup MOTION, file_name |-> CamName("b", HexShort),
     length |-> ChunkSize + 1]
VodC ==
    [start_time |-> Datetime(2026, 2, 21, 8, 0, 0),
     end_time |-> Datetime(2026, 2, 21, 8, 5, 0),
     triggers |-> NONE, file_name |-> CamName("c", HexPersonMotion),
     length |-> ChunkSize]
VodD ==
    [start_time |-> Datetime(2026, 2, 20, 9, 0, 0),
     end_time |-> Datetime(2026, 2, 20, 9, 5, 0),
     triggers |-> NONE, file_name |-> CamName("d", HexShort), length |-> 0]

Universe == {VodA, VodB, VodC, VodD}

\* the sequences without repetition of at most n recordings
SeqsUpTo(n) ==
    UNION {{s \in [1..k -> Universe] : \A a, b \in 1..k : a # b => s[a] # s[b]}
           : k \in 0..n}

(***************************************************************************)
(* The file system under args.output_dir.                                  *)
(***************************************************************************)
output_dir == <<"downloads">>

\* variant of DestDir: no directory per date
DestDir_flat(vod) == output_dir

DestDir(vod) == output_dir \o <<StrfDate(vod.start_time)>>
DestPath(vod) == DestDir(vod) \o <<make_output_filename(vod)>>

\* variants of Exists: the test always fails / an empty file counts as absent
Exists_never(fs, p) == FALSE
Exists_nonempty(fs, p) == p \in DOMAIN fs /\ fs[p].bytes > 0

Exists(fs, p) == p \in DOMAIN fs

\* open(p, "wb"): creates or truncates
Create(fs, p, owner) ==
    [q \in DOMAIN fs \cup {p} |->
        IF q = p THEN [owner |-> owner, bytes |-> 0] ELSE fs[q]]

\* f.write(chunk) of n bytes
WriteBytes(fs, p, n) == [fs EXCEPT ![p].bytes = @ + n]

\* variant of unlink: every file of p's directory is removed
Unlink_dir(fs, p) ==
    [q \in {r \in DOMAIN fs : SubSeq(r, 1, Len(r) - 1) # SubSeq(p, 1, Len(p) - 1)}
       |-> fs[q]]

\* p.unlink()
Unlink(fs, p) == [q \in DOMAIN fs \ {p} |-> fs[q]]

\* dest_dir.mkdir(parents=True, exist_ok=True)
Mkdir(ds, d) == ds \cup {SubSeq(d, 1, k) : k \in 1..Len(d)}

\* variant of CleanupPartial: the partial file is left behind
CleanupPartial_keep(fs, p) == fs

\* the except branch's cleanup: if dest_path.exists(): dest_path.unlink()
CleanupPartial(fs, p) == IF Exists(fs, p) THEN Unlink(fs, p) ELSE fs

(***************************************************************************)
(* One invocation of `download`: connect(), then _run's body.              *)
(***************************************************************************)
FilterChoices ==
    {build_trigger_filter(p, FALSE, FALSE, FALSE, FALSE) : p \in BOOLEAN}
LatestChoices == {None, Some(0), Some(1)}

NoPrev ==
    [files |-> <<>>, dirs |-> {}, summary |-> FALSE, clean |-> FALSE,
     dry_run |-> FALSE]
NoLast ==
    [cause |-> "none", counted |-> FALSE, written |-> 0, downloaded0 |-> 0,
     failed0 |-> 0]
PureIdle == call = [fn |-> "none"] /\ ret = None

Init ==
    /\ vods \in SeqsUpTo(MaxVods)
    /\ trigger_filter \in FilterChoices
    /\ latest \in LatestChoices
    /\ dry_run \in BOOLEAN
    /\ progress \in BOOLEAN
    /\ pc = "start"
    /\ filtered = <<>>
    /\ i = 1
    /\ downloaded = 0
    /\ failed = 0
    /\ dl = "none"
    /\ received = 0
    /\ files = <<>>
    /\ dirs = {}
    /\ camlog = <<>>
    /\ outcome = <<>>
    /\ last = NoLast
    /\ summary = FALSE
    /\ status = "running"
    /\ run = 1
    /\ prev = NoPrev
    /\ PureIdle

args == <<vods, trigger_filter, latest, progress>>

\* variant of ListOnly: --dry-run is ignored
ListOnly_never == FALSE

\* `if args.dry_run:` of _run
ListOnly == dry_run

\* variant of the loop variable: the list is walked from its end
Cur_reversed == filtered[Len(filtered) + 1 - i]

Cur == filtered[i]
Path == DestPath(Cur)

\* variant of Raise: the exception ends the invocation without the logout
Raise_nologout ==
    /\ pc' = "exit"
    /\ status' = "error"

\* the exception leaves `async with connect(config)`: its finally logs out
\* variant of Raise: the exception is noted and the body goes on
Raise_continue ==
    /\ pc' = IF pc = "start" THEN "connected" ELSE "logout"
    /\ status' = "error"

Raise ==
    /\ pc' = "logout"
    /\ status' = "error"

\* connect(): host.get_host_data()
Connect ==
    /\ pc = "start"
    /\ camlog' = Append(camlog, <<"get_host_data">>)
    /\ \E ok \in BOOLEAN :
         IF ok THEN pc' = "connected" /\ UNCHANGED status ELSE Raise
    /\ UNCHANGED <<args, dry_run, filtered, i, downloaded, failed, dl, received, files,
                   dirs, outcome, last, summary, run, prev, pureVars>>

\* variant of Limited: the limit is taken first, the filter applied after
Limited_limitfirst(found, f, lim) == filter_vods(apply_latest(found, lim), f)

\* filtered = filter_vods(vods, trigger_filter), then
\* filtered = apply_latest(filtered, args.latest)
Limited(found, f, lim) == apply_latest(filter_vods(found, f), lim)

\* what _run does with the recordings request_vod_files returned, up to the
\* download loop: filter, the early return, --latest, the dry-run listing
Select(found) ==
    LET matched == filter_vods(found, trigger_filter)
        limited == Limited(found, trigger_filter, latest)
    IN IF matched = <<>>
       THEN /\ filtered' = matched
            /\ pc' = "logout" /\ status' = "ok" /\ UNCHANGED summary
       ELSE /\ filtered' = limited
            /\ IF ListOnly
               THEN pc' = "logout" /\ status' = "ok" /\ UNCHANGED summary
               ELSE IF limited = <<>>
               THEN pc' = "logout" /\ status' = "ok" /\ summary' = TRUE
               ELSE pc' = "loop" /\ UNCHANGED <<status, summary>>

\* host.request_vod_files(...)
Query ==
    /\ pc = "connected"
    /\ camlog' = Append(camlog, <<"request_vod_files">>)
    /\ \E ok \in BOOLEAN :
         IF ok THEN Select(vods)
         ELSE Raise /\ UNCHANGED <<filtered, summary>>
    /\ UNCHANGED <<args, dry_run, i, downloaded, failed, dl, received, files, dirs,
                   outcome, last, run, prev, pureVars>>

\* variant of Advance: a failed recording ends the loop (a `break`)
Advance_break(result, o) ==
    /\ outcome' = Append(outcome, result)
    /\ last' = o
    /\ IF i < Len(filtered) /\ result # "failed"
       THEN i' = i + 1 /\ pc' = "loop" /\ UNCHANGED <<summary, status>>
       ELSE /\ pc' = "logout" /\ status' = "ok" /\ UNCHANGED i
            /\ summary' = (result # "failed")

\* the recording at index i is settled: the loop goes to the next one, or
\* prints the summary after the last one and leaves `async with`
Advance(result, o) ==
    /\ outcome' = Append(outcome, result)
    /\ last' = o
    /\ IF i < Len(filtered)
       THEN i' = i + 1 /\ pc' = "loop" /\ UNCHANGED <<summary, status>>
       ELSE pc' = "logout" /\ summary' = TRUE /\ status' = "ok" /\ UNCHANGED i

Settled(cause, counted) ==
    [cause |-> cause, counted |-> counted, written |-> received,
     downloaded0 |-> downloaded, failed0 |-> failed]

\* loop head: mkdir, the destination path, skip-if-exists
BeginRecording ==
    /\ pc = "loop"
    /\ dirs' = Mkdir(dirs, DestDir(Cur))
    /\ IF Exists(files, Path)
       THEN /\ downloaded' = downloaded + 1
            /\ Advance("skipped", Settled("none", TRUE))
       ELSE /\ pc' = "request"
            /\ UNCHANGED <<downloaded, outcome, last, i, summary, status>>
    /\ UNCHANGED <<args, dry_run, filtered, failed, dl, received, files, camlog, run,
                   prev, pureVars>>

\* dest_dir.mkdir or dest_path.exists raises: outside the try, so the
\* exception leaves the loop
PrepareFails ==
    /\ pc = "loop"
    /\ \E at \in {"mkdir", "exists"} :
         dirs' = IF at = "mkdir" THEN dirs ELSE Mkdir(dirs, DestDir(Cur))
    /\ Raise
    /\ UNCHANGED <<args, dry_run, filtered, i, downloaded, failed, dl, received, files,
                   camlog, outcome, last, summary, run, prev, pureVars>>

\* variant of the failure path without the finally clause of line 179-180
Fail_leak(cause) ==
    /\ failed' = failed + 1
    /\ files' = CleanupPartial(files, Path)
    /\ dl' = dl
    /\ Advance("failed", Settled(cause, FALSE))

\* except Exception as e: failed += 1; remove the partial file
Fail(cause) ==
    /\ failed' = failed + 1
    /\ files' = CleanupPartial(files, Path)
    /\ dl' = IF dl = "open" THEN "closed" ELSE dl
    /\ Advance("failed", Settled(cause, FALSE))

\* dl = await host.download_vod(filename=vod.file_name)
RequestStream ==
    /\ pc = "request"
    /\ camlog' = Append(camlog, <<"download_vod", Cur.file_name>>)
    /\ \E ok \in BOOLEAN :
         IF ok
         THEN /\ dl' = "open" /\ pc' = "open"
              /\ UNCHANGED <<failed, files, outcome, last, i, summary, status>>
         ELSE Fail("request")
    /\ received' = 0
    /\ UNCHANGED <<args, dry_run, filtered, downloaded, dirs, run, prev, pureVars>>

\* open(dest_path, "wb")
OpenFile ==
    /\ pc = "open"
    /\ \E ok \in BOOLEAN :
         IF ok
         THEN /\ files' = Create(files, Path, Cur.file_name) /\ pc' = "stream"
              /\ UNCHANGED <<failed, dl, outcome, last, i, summary, status>>
         ELSE Fail("open")
    /\ UNCHANGED <<args, dry_run, filtered, downloaded, received, dirs, camlog, run,
                   prev, pureVars>>

\* the sizes iter_chunked may yield with `left` bytes to come: a full chunk
\* (or what is left), or a short read
ChunkLens(left) ==
    {IF left < ChunkSize THEN left ELSE ChunkSize,
     IF left < ChunkSize \div 2 THEN left ELSE ChunkSize \div 2}

BarWidth == 30

\* variant of print_progress: writing to stderr raises
print_progress_raises(downloaded_bytes, total_bytes) == Raised("BrokenPipeError")

\* print_progress(downloaded_bytes, total_bytes, filename) for integer
\* arguments: what it writes to stderr (nothing for a total <= 0; else the
\* number of "#" of the bar and whether the final newline is written), or
\* the exception it raises
print_progress(downloaded_bytes, total_bytes) ==
    IF total_bytes <= 0 THEN [written |-> FALSE]
    ELSE LET filled == (BarWidth * downloaded_bytes) \div total_bytes
         IN [written |-> TRUE,
             hashes |-> IF filled > 0 THEN filled ELSE 0,
             dashes |-> IF BarWidth - filled > 0 THEN BarWidth - filled ELSE 0,
             newline |-> downloaded_bytes >= total_bytes]

\* one turn of `async for chunk in dl.stream.iter_chunked(65536)`: write the
\* chunk, add its length to received, report progress if asked to
ReadChunk ==
    /\ pc = "stream"
    /\ received < Cur.length
    /\ \E n \in ChunkLens(Cur.length - received) :
         /\ received' = received + n
         /\ IF progress /\ IsRaised(print_progress(received + n, Cur.length))
            THEN Fail("progress")
            ELSE /\ files' = WriteBytes(files, Path, n)
                 /\ UNCHANGED <<pc, i, failed, dl, outcome, last, summary, status>>
    /\ UNCHANGED <<args, dry_run, filtered, downloaded, dirs, camlog, run, prev,
                   pureVars>>

\* the chunk loop's turn without lines 174-175: write the chunk, add its
\* length to received
ReadChunkQuiet ==
    /\ pc = "stream"
    /\ received < Cur.length
    /\ \E n \in ChunkLens(Cur.length - received) :
         /\ received' = received + n
         /\ files' = WriteBytes(files, Path, n)
    /\ UNCHANGED <<args, dry_run, pc, filtered, i, downloaded, failed, dl, dirs, camlog,
                   outcome, last, summary, status, run, prev, pureVars>>

\* the stream raises while the next chunk is awaited
ReadFails ==
    /\ pc = "stream"
    /\ Fail("read")
    /\ UNCHANGED <<args, dry_run, filtered, downloaded, received, dirs, camlog, run,
                   prev, pureVars>>

\* f.write(chunk) raises
WriteFails ==
    /\ pc = "stream"
    /\ received < Cur.length
    /\ Fail("write")
    /\ UNCHANGED <<args, dry_run, filtered, downloaded, received, dirs, camlog, run,
                   prev, pureVars>>

\* the stream is exhausted: downloaded += 1, dest_path.stat(), dl.close()
StreamEnd ==
    /\ pc = "stream"
    /\ received = Cur.length
    /\ downloaded' = downloaded + 1
    /\ dl' = "closed"
    /\ \E raised \in {"none", "stat", "close"} :
         IF raised = "none"
         THEN /\ Advance("downloaded", Settled("none", TRUE))
              /\ UNCHANGED <<failed, files>>
         ELSE /\ failed' = failed + 1
              /\ files' = CleanupPartial(files, Path)
              /\ Advance("failed", Settled(raised, TRUE))
    /\ UNCHANGED <<args, dry_run, filtered, received, dirs, camlog, run, prev, pureVars>>

\* connect()'s finally: await host.logout()
Logout ==
    /\ pc = "logout"
    /\ camlog' = Append(camlog, <<"logout">>)
    /\ pc' = "exit"
    /\ UNCHANGED <<args, dry_run, filtered, i, downloaded, failed, dl, received, files,
                   dirs, outcome, last, summary, status, run, prev, pureVars>>

\* the names download_vod was called with
Requested(log) == {log[k][2] : k \in {j \in 1..Len(log) : log[j][1] = "download_vod"}}

\* where an invocation begins: at run()'s checks of the time arguments when
\* the command line is part of the behaviour, else at connect()
Entry == IF call.fn = "run" THEN "main" ELSE "start"

\* the command is invoked again on what the previous invocation left on
\* disk, with the same selection and --dry-run given or not
NewRun ==
    /\ pc = "exit"
    /\ run < MaxRuns
    /\ run' = run + 1
    /\ prev' = [files |-> files, dirs |-> dirs, summary |-> summary,
                clean |-> (summary /\ failed = 0), dry_run |-> dry_run]
    /\ dry_run' \in BOOLEAN
    /\ pc' = Entry
    /\ filtered' = <<>>
    /\ i' = 1
    /\ downloaded' = 0
    /\ failed' = 0
    /\ dl' = "none"
    /\ received' = 0
    /\ camlog' = <<>>
    /\ outcome' = <<>>
    /\ last' = NoLast
    /\ summary' = FALSE
    /\ status' = "running"
    /\ UNCHANGED <<args, files, dirs, pureVars>>

Next ==
    \/ Connect
    \/ Query
    \/ BeginRecording
    \/ PrepareFails
    \/ RequestStream
    \/ OpenFile
    \/ ReadChunk
    \/ ReadFails
    \/ WriteFails
    \/ StreamEnd
    \/ Logout
    \/ NewRun

Spec == Init /\ [][Next]_vars

\* the download with no progress reporting in its chunk loop
NextQuiet ==
    \/ Connect
    \/ Query
    \/ BeginRecording
    \/ PrepareFails
    \/ RequestStream
    \/ OpenFile
    \/ ReadChunkQuiet
    \/ ReadFails
    \/ WriteFails
    \/ StreamEnd
    \/ Logout
    \/ NewRun

SpecQuiet == Init /\ [][NextQuiet]_vars

(***************************************************************************)
(* Properties of the download loop.                                        *)
(***************************************************************************)
\* the destination path of the recording settled last
LastPath == DestPath(filtered[Len(outcome)])
TransferCauses == {"request", "open", "read", "write"}
LogoutCount == Cardinality({k \in 1..Len(camlog) : camlog[k] = <<"logout">>})
VodNamed(name) == CHOOSE v \in Universe : v.file_name = name

\* C1: when the stream request, the open, a chunk read or a file write of a
\* recording raised, then at the loop head of the next recording (or at the
\* summary) its destination path does not exist and `failed` is one more
\* than before that recording.
C1_FailedTransferLeavesNoFile ==
    (pc \in {"loop", "logout"} /\ outcome # <<>>
        /\ outcome[Len(outcome)] = "failed" /\ last.cause \in TransferCauses)
    => (LastPath \notin DOMAIN files /\ failed = last.failed0 + 1)

C1_Witness ==
    /\ pc = "loop" /\ outcome # <<>>
    /\ outcome[Len(outcome)] = "failed" /\ last.cause = "read"
    /\ last.written > 0

C3_PresentFilesCompleteAndCounted ==
    (run = 1 /\ pc \in {"loop", "logout", "exit"})
    => /\ \A p \in DOMAIN files :
            files[p].bytes = VodNamed(files[p].owner).length
       /\ (outcome # <<>> /\ last.counted)
            => /\ LastPath \in DOMAIN files
               /\ files[LastPath].bytes = VodNamed(files[LastPath].owner).length

\* the part of C3 that the code keeps: the files present are complete
C3_PresentFilesComplete ==
    (pc \in {"loop", "logout", "exit"})
    => \A p \in DOMAIN files : files[p].bytes = VodNamed(files[p].owner).length

\* the indices of this run's settled recordings whose file the previous run left
LeftByPrev ==
    {k \in 1..Len(outcome) : DestPath(filtered[k]) \in DOMAIN prev.files}

\* C4 as stated: when two successive download runs both reached their
\* summary, after the second the file set is the one the first run left, no stream was requested for a recording whose file the
\* first run completed, and each such recording is counted in downloaded.
C4_SameFileSetAfterSecondRun ==
    (pc = "exit" /\ run >= 2 /\ summary /\ prev.summary)
    => /\ DOMAIN files = DOMAIN prev.files
       /\ \A name \in Requested(camlog) :
            DestPath(VodNamed(name)) \notin DOMAIN prev.files
       /\ \A k \in LeftByPrev : outcome[k] = "skipped"
       /\ summary => downloaded >= Cardinality(LeftByPrev)

\* C4 (amended): every file the previous run left is still there, unchanged,
\* and the file set is the same when the previous run reported no failure;
\* no stream is requested for a recording whose file the previous run left,
\* each such recording that is processed is skipped and counted in
\* downloaded, and when every selected file is present no stream is
\* requested at all.
C4_SecondRunKeepsAndSkips ==
    (run >= 2)
    => /\ \A p \in DOMAIN prev.files : p \in DOMAIN files /\ files[p] = prev.files[p]
       /\ (pc = "exit" /\ prev.clean) => files = prev.files
       /\ \A name \in Requested(camlog) :
            DestPath(VodNamed(name)) \notin DOMAIN prev.files
       /\ \A k \in LeftByPrev : outcome[k] = "skipped"
       /\ summary => downloaded >= Cardinality(LeftByPrev)
       /\ (\A k \in 1..Len(filtered) : DestPath(filtered[k]) \in DOMAIN prev.files)
            => Requested(camlog) = {}

C4_Witness ==
    /\ run = 2 /\ pc = "exit" /\ ~dry_run /\ ~prev.dry_run
    /\ prev.clean /\ Cardinality(DOMAIN prev.files) = 2
    /\ summary /\ Len(filtered) = 2 /\ downloaded = 2
    /\ Requested(camlog) = {}

\* C5: when the destination file of the recording at the loop head exists
\* and the loop is not left by an exception of mkdir or exists, the step
\* requests no stream, leaves every file unchanged, adds one to downloaded
\* and leaves failed unchanged.
C5_SkipIfExists ==
    [][(pc = "loop" /\ Path \in DOMAIN files /\ status' # "error")
       => /\ camlog' = camlog
          /\ files' = files
          /\ downloaded' = downloaded + 1
          /\ failed' = failed
          /\ pc' \in {"loop", "logout"}]_vars

C5_Witness ==
    /\ outcome # <<>> /\ outcome[Len(outcome)] = "skipped"
    /\ downloaded = last.downloaded0 + 1
    /\ LastPath \in DOMAIN files

\* C6: an invocation that has ended has logged out exactly once, and at no
\* time does a camera call follow the logout.
C6_LogoutExactlyOnce ==
    /\ pc = "exit" => LogoutCount = 1
    /\ \A k \in 1..Len(camlog) : camlog[k] = <<"logout">> => k = Len(camlog)
    /\ pc # "exit" => LogoutCount = 0

C6_Witness ==
    /\ pc = "exit" /\ status = "error" /\ LogoutCount = 1
    /\ Len(camlog) > 2

\* C7: in a dry run no stream is requested, the files and directories are
\* those the run found, and downloaded and failed are never updated.
C7_DryRunTouchesNothing ==
    dry_run
    => /\ Requested(camlog) = {}
       /\ files = prev.files
       /\ dirs = prev.dirs
       /\ downloaded = 0 /\ failed = 0
       /\ outcome = <<>>

C7_Witness ==
    /\ dry_run /\ pc = "exit" /\ status = "ok" /\ Len(filtered) = 2
    /\ run = 2 /\ files # <<>>

(***************************************************************************)
(* The pure functions of vod.py, applied to inputs drawn from bounded sets. *)
(***************************************************************************)
\* "_".join(parts)
RECURSIVE JoinParts(_)
JoinParts(parts) ==
    IF Len(parts) = 1 THEN parts[1]
    ELSE parts[1] \o <<"_">> \o JoinParts(Tail(parts))

\* the characters tried at positions 4, 5, 6 of the flags field: the hex
\* digits in upper case, a lower-case one, one that is no hex digit and a
\* decimal digit of another script
NibbleChars ==
    {"0", "1", "2", "3", "4", "5", "6", "7", "8", "9",
     "A", "B", "C", "D", "E", "F", "c", "G", "U+0664"}

\* The shapes of camera file names tried: directory prefix, number of parts
\* before the flags field, what follows the three nibbles, extension.
\* Old layout: 4 leading parts and a 7-character field; new layout: 5 leading
\* parts and a 10-character field.
NameShapes ==
    {[dir |-> <<"M", "/", "d", "/">>, lead |-> 4, suffix |-> <<>>,
      ext |-> <<".", "m", "p", "4">>],
     [dir |-> <<"M", "/", "d", "/">>, lead |-> 5, suffix |-> <<"0", "0", "0">>,
      ext |-> <<".", "m", "p", "4">>],
     [dir |-> <<>>, lead |-> 4, suffix |-> <<"0", "0", "0">>, ext |-> <<>>],
     [dir |-> <<"a", ".", "b", "/">>, lead |-> 5, suffix |-> <<>>, ext |-> <<>>],
     [dir |-> <<"M", "/">>, lead |-> 3, suffix |-> <<>>,
      ext |-> <<".", "m", "p", "4">>]}

ShapeParts(shape, t, u, r) ==
    [k \in 1..shape.lead |-> <<"R">>]
    \o << <<"6", "D", "2", "8", t, u, r>> \o shape.suffix, <<"E", "3">> >>

ParseCalls ==
    {[fn |-> "parse_triggers_from_filename",
      name |-> shape.dir \o JoinParts(ShapeParts(shape, t, u, r)) \o shape.ext,
      parts |-> ShapeParts(shape, t, u, r)]
     : shape \in NameShapes, t \in NibbleChars, u \in NibbleChars, r \in NibbleChars}

\* Names outside the camera's layouts: the empty string, a bare "/", a bare
\* extension, six empty parts, a 6-character and an empty flags field, and
\* an empty last part. parts is basename.split("_") of each.
OddParseCalls ==
    {[fn |-> "parse_triggers_from_filename", name |-> <<>>, parts |-> << <<>> >>],
     [fn |-> "parse_triggers_from_filename", name |-> <<"/">>, parts |-> << <<>> >>],
     [fn |-> "parse_triggers_from_filename", name |-> <<".", "m", "p", "4">>,
      parts |-> << <<>> >>],
     [fn |-> "parse_triggers_from_filename",
      name |-> <<"_", "_", "_", "_", "_">>,
      parts |-> << <<>>, <<>>, <<>>, <<>>, <<>>, <<>> >>],
     [fn |-> "parse_triggers_from_filename",
      name |-> <<"R", "_", "R", "_", "R", "_", "R", "_",
                 "6", "D", "2", "8", "C", "0", "_", "E", "3">>,
      parts |-> << <<"R">>, <<"R">>, <<"R">>, <<"R">>,
                   <<"6", "D", "2", "8", "C", "0">>, <<"E", "3">> >>],
     [fn |-> "parse_triggers_from_filename",
      name |-> <<"R", "_", "R", "_", "R", "_", "R", "_", "_", "E", "3">>,
      parts |-> << <<"R">>, <<"R">>, <<"R">>, <<"R">>, <<>>, <<"E", "3">> >>],
     [fn |-> "parse_triggers_from_filename",
      name |-> <<"R", "_", "R", "_", "R", "_", "R", "_",
                 "6", "D", "2", "8", "C", "0", "8", "_">>,
      parts |-> << <<"R">>, <<"R">>, <<"R">>, <<"R">>,
                   <<"6", "D", "2", "8", "C", "0", "8">>, <<>> >>]}

\* file names that decode to PERSON|MOTION, to VEHICLE|TIMER and to NONE
PureNames ==
    {CamName("c", HexPersonMotion),
     CamName("v", <<"6", "D", "2", "8", "1", "1", "0">>),
     CamName("d", HexShort)}

PureVods ==
    {[start_time |-> Datetime(2026, 2, 20, 8, 0, 0),
      end_time |-> Datetime(2026, 2, 20, 8, 5, 0),
      triggers |-> t, file_name |-> n]
     : t \in {NONE, PERSON, MOTION, VEHICLE \cup PET, TIMER}, n \in PureNames}

ClassifyCalls ==
    {[fn |-> "get_vod_triggers",
      vod |-> [start_time |-> Datetime(2026, 2, 20, 8, 0, 0),
               end_time |-> Datetime(2026, 2, 20, 8, 5, 0),
               triggers |-> t, file_name |-> n]]
     : t \in TriggerSets, n \in PureNames}

FilterCalls ==
    {[fn |-> "filter_vods", vods |-> vs, f |-> f]
     : vs \in UNION {[1..k -> PureVods] : k \in 0..MaxVods},
       f \in {None} \cup {Some(m) : m \in TriggerSets}}

BuildCalls ==
    {[fn |-> "build_trigger_filter", person |-> p, vehicle |-> v, pet |-> a,
      motion |-> m, all_triggers |-> t]
     : p \in BOOLEAN, v \in BOOLEAN, a \in BOOLEAN, m \in BOOLEAN, t \in BOOLEAN}

\* recordings for apply_latest: 08:00, 10:00 (two of them, a tie) and 12:00
\* of one day and 07:00 of the next
TimedVod(tag, day, hour) ==
    [start_time |-> Datetime(2026, 2, day, hour, 0, 0),
     end_time |-> Datetime(2026, 2, day, hour, 5, 0),
     triggers |-> PERSON, file_name |-> CamName(tag, HexShort)]

TimedVods ==
    {TimedVod("a", 20, 8), TimedVod("b", 20, 10), TimedVod("c", 20, 10),
     TimedVod("d", 20, 12), TimedVod("e", 21, 7)}

\* --latest is type=int: absent, zero, positive or negative
LimitChoices == {None} \cup {Some(n) : n \in (0 - MaxList - 1)..(MaxList + 1)}

LatestCalls ==
    {[fn |-> "apply_latest", vods |-> vs, limit |-> lim]
     : vs \in UNION {[1..k -> TimedVods] : k \in 0..MaxList},
       lim \in LimitChoices}

PrimaryCalls ==
    {[fn |-> "get_primary_trigger_name", triggers |-> t] : t \in TriggerSets}

\* times of day: midnight, single-digit fields, the spec's example, the last
\* second of the day
ClockTimes ==
    {<<0, 0, 0>>, <<9, 5, 7>>, <<10, 30, 0>>, <<10, 45, 0>>, <<23, 59, 59>>}

FilenameCalls ==
    {[fn |-> "make_output_filename",
      vod |-> [start_time |-> Datetime(2026, 2, 20, a[1], a[2], a[3]),
               end_time |-> Datetime(2026, 2, 20, b[1], b[2], b[3]),
               triggers |-> t, file_name |-> n]]
     : a \in ClockTimes, b \in ClockTimes,
       t \in {NONE, PERSON, TIMER, PET \cup MOTION, VEHICLE \cup PERSON},
       n \in PureNames}

\* --since strings: well-formed ones (minutes that reach into the day
\* before, leading zeros, a digit of another script), zero amounts, signs,
\* missing or unknown units, stray characters, and spans longer than the
\* time since 0001-01-01 or than timedelta can hold
SinceStrings ==
    {<<"5", "m">>, <<"3", "0", "m">>, <<"1", "5", "0", "0", "m">>,
     <<"2", "h">>, <<"2", "5", "h">>, <<"0", "0", "7", "h">>,
     <<"1", "d">>, <<"3", "d">>, <<"U+0665", "m">>,
     <<"0", "m">>, <<"0", "h">>, <<"0", "0", "d">>,
     <<"-", "5", "m">>, <<"+", "5", "m">>, <<"5">>, <<"m">>, <<>>,
     <<"5", "x">>, <<"5", "M">>, <<"5", "s">>, <<"1", ".", "5", "h">>,
     <<"5", " ", "m">>, <<" ", "5", "m">>, <<"5", "m", "m">>, <<"m", "5">>,
     <<"8", "0", "0", "0", "0", "0", "d">>,
     <<"1", "0", "0", "0", "0", "0", "0", "0", "0", "0", "d">>}

\* datetime.now(): 2026-11-05 at 00:01:00 and at 12:00:00
NowChoices == {[ord |-> 739925, sec |-> 60], [ord |-> 739925, sec |-> 43200]}

SinceCalls ==
    {[fn |-> "parse_since", since_str |-> t, now |-> n]
     : t \in SinceStrings, n \in NowChoices}

OrchIdle ==
    /\ vods = <<>> /\ trigger_filter = None /\ latest = None
    /\ dry_run = FALSE /\ progress = FALSE /\ pc = "idle"
    /\ filtered = <<>> /\ i = 1 /\ downloaded = 0 /\ failed = 0
    /\ dl = "none" /\ received = 0 /\ files = <<>> /\ dirs = {}
    /\ camlog = <<>> /\ outcome = <<>> /\ last = NoLast /\ summary = FALSE
    /\ status = "running" /\ run = 1 /\ prev = NoPrev

InitVod ==
    /\ call \in ParseCalls \cup OddParseCalls \cup ClassifyCalls \cup FilterCalls
               \cup BuildCalls \cup LatestCalls \cup PrimaryCalls
               \cup FilenameCalls \cup SinceCalls
    /\ ret = None
    /\ OrchIdle

ApplyParse ==
    /\ call.fn = "parse_triggers_from_filename" /\ ret = None
    /\ ret' = Some(parse_triggers_from_filename(call.name))
    /\ UNCHANGED <<call, orchVars>>

ApplyClassify ==
    /\ call.fn = "get_vod_triggers" /\ ret = None
    /\ ret' = Some(get_vod_triggers(call.vod))
    /\ UNCHANGED <<call, orchVars>>

ApplyFilter ==
    /\ call.fn = "filter_vods" /\ ret = None
    /\ ret' = Some(filter_vods(call.vods, call.f))
    /\ UNCHANGED <<call, orchVars>>

ApplyBuild ==
    /\ call.fn = "build_trigger_filter" /\ ret = None
    /\ ret' = Some(build_trigger_filter(call.person, call.vehicle, call.pet,
                                        call.motion, call.all_triggers))
    /\ UNCHANGED <<call, orchVars>>

ApplyLatest ==
    /\ call.fn = "apply_latest" /\ ret = None
    /\ ret' = Some(apply_latest(call.vods, call.limit))
    /\ UNCHANGED <<call, orchVars>>

ApplyPrimary ==
    /\ call.fn = "get_primary_trigger_name" /\ ret = None
    /\ ret' = Some(get_primary_trigger_name(call.triggers))
    /\ UNCHANGED <<call, orchVars>>

ApplyFilename ==
    /\ call.fn = "make_output_filename" /\ ret = None
    /\ ret' = Some(make_output_filename(call.vod))
    /\ UNCHANGED <<call, orchVars>>

ApplySince ==
    /\ call.fn = "parse_since" /\ ret = None
    /\ ret' = Some(parse_since(call.since_str, call.now))
    /\ UNCHANGED <<call, orchVars>>

NextVod ==
    \/ ApplyParse
    \/ ApplyClassify
    \/ ApplyFilter
    \/ ApplyBuild
    \/ ApplyLatest
    \/ ApplyPrimary
    \/ ApplyFilename
    \/ ApplySince

SpecVod == InitVod /\ [][NextVod]_vars

\* YYYY-MM-DD of a datetime, digit by digit
DigitChars == <<"0", "1", "2", "3", "4", "5", "6", "7", "8", "9">>
TwoDigits(n) == DigitChars[(n \div 10) + 1] \o DigitChars[(n % 10) + 1]
DateOf(dt) ==
    TwoDigits(dt.year \div 100) \o TwoDigits(dt.year % 100) \o "-"
    \o TwoDigits(dt.month) \o "-" \o TwoDigits(dt.day)

\* {output-dir}/{YYYY-MM-DD}/{file name} of each recording of the camera,
\* by the camera's name of the recording
DatedPath ==
    [name \in {v.file_name : v \in Universe} |->
        <<"downloads", DateOf(VodNamed(name).start_time),
          make_output_filename(VodNamed(name))>>]

\* dest_path of each recording of the camera, by its name
DestPathOf ==
    [name \in {v.file_name : v \in Universe} |-> DestPath(VodNamed(name))]

\* C18: every file is at {output-dir}/{start date}/{file name} of its
\* recording, in a directory that has been created together with its
\* parent; creating a directory that already exists changes nothing;
\* two selected recordings with different start dates have different
\* destination paths.
C18_DatedDestinations ==
    /\ \A p \in DOMAIN files :
         /\ p = DatedPath[files[p].owner]
         /\ {<<"downloads">>, SubSeq(p, 1, 2)} \subseteq dirs
    /\ (pc = "loop" /\ DestDir(Cur) \in dirs)
       => Mkdir(dirs, DestDir(Cur)) = dirs
    /\ \A a, b \in 1..Len(filtered) :
         DatedPath[filtered[a].file_name][2] # DatedPath[filtered[b].file_name][2]
         => DestPathOf[filtered[a].file_name] # DestPathOf[filtered[b].file_name]

\* a second run finds both directories in place and skips two recordings
\* of different days whose file names are equal
C18_Witness ==
    /\ run = 2 /\ pc = "exit" /\ outcome = <<"skipped", "skipped">>
    /\ filtered = <<VodA, VodC>>
    /\ make_output_filename(VodA) = make_output_filename(VodC)
    /\ {DestPath(VodA), DestPath(VodC)} \subseteq DOMAIN files
    /\ DestPath(VodA) # DestPath(VodC)

C21_ProgressBlocksNothing == [][Next]_vars

C22_HandleClosedOnce ==
    /\ [](dl = "open" => pc \in {"open", "stream"})
    /\ [][/\ (dl' = "open" /\ dl # "open") => (pc = "request" /\ pc' = "open")
          /\ (dl = "open" /\ dl' # "open") =>
                 (dl' = "closed" /\ Len(outcome') = Len(outcome) + 1)
          /\ (dl = "open" /\ Len(outcome') # Len(outcome)) => dl' = "closed"
          /\ (dl = "closed" /\ dl' # "closed") => (dl' = "open" \/ pc' = Entry)]_vars

\* a handle was closed after a failed transfer and the next recording's handle
\* was closed after a success
C22_Witness ==
    /\ pc = "exit" /\ summary /\ dl = "closed"
    /\ outcome = <<"failed", "downloaded">>
    /\ last.cause = "none" /\ failed = 1 /\ downloaded = 1

InLoop == {"loop", "request", "open", "stream"}

\* the file names of the stream requests made so far, in the order made
RequestedNames ==
    LET IsRequest(e) == e[1] = "download_vod"
        reqs == SelectSeq(camlog, IsRequest)
    IN [k \in 1..Len(reqs) |-> reqs[k][2]]

RECURSIVE IsSubseq(_, _)
\* r is s with some elements left out, order kept
IsSubseq(r, s) ==
    IF r = <<>> THEN TRUE
    ELSE IF s = <<>> THEN FALSE
    ELSE IF Head(r) = Head(s) THEN IsSubseq(Tail(r), Tail(s))
    ELSE IsSubseq(r, Tail(s))

\* C23: while a recording is being processed every recording before it in
\* the filtered and ranked sequence has its outcome and no later one has; a
\* stream request is for the first recording without an outcome; the requests
\* made so far follow the order of the sequence, which does not change during
\* the loop.
C23_StrictlySequential ==
    /\ [](/\ pc \in InLoop => (i \in 1..Len(filtered) /\ Len(outcome) = i - 1)
          /\ IsSubseq(RequestedNames, [k \in 1..Len(filtered) |-> filtered[k].file_name]))
    /\ [][run' = run =>
            /\ pc \in InLoop => filtered' = filtered
            /\ (pc \in InLoop /\ pc' \in InLoop) =>
                   (i' = i + (Len(outcome') - Len(outcome)) /\ Len(outcome') - Len(outcome) \in {0, 1})
            /\ (pc = "request") =>
                   camlog' = Append(camlog, <<"download_vod",
                                              filtered[Len(outcome) + 1].file_name>>)]_vars

\* two recordings were requested one after the other, the second after the
\* first had failed
C23_Witness ==
    /\ pc = "stream" /\ i = 2 /\ outcome = <<"failed">>
    /\ RequestedNames = <<filtered[1].file_name, filtered[2].file_name>>
    /\ filtered[1].file_name # filtered[2].file_name

\* C24: when the summary of a non-dry run is reported, every selected
\* recording has exactly one outcome and downloaded + failed is the number of
\* selected recordings; no recording has incremented both counters.
C24_OneOutcomeEach ==
    /\ (pc \in {"logout", "exit"} /\ summary /\ ~dry_run) =>
          (Len(outcome) = Len(filtered) /\ downloaded + failed = Len(filtered))
    /\ (Len(outcome) > 0 /\ ~dry_run) =>
          (downloaded - last.downloaded0) + (failed - last.failed0) = 1

\* the part of C24 the loop does keep: one outcome per selected recording,
\* and each counter moves by at most one per recording
C24_OneOutcomeRecorded ==
    /\ (pc \in {"logout", "exit"} /\ summary /\ ~dry_run) => Len(outcome) = Len(filtered)
    /\ (Len(outcome) > 0 /\ ~dry_run) =>
          (downloaded - last.downloaded0 \in {0, 1} /\ failed - last.failed0 \in {0, 1})

\* C26: once get_host_data was called, an invocation that is in error, or
\* is not about to make the recording query, without having made it, is in
\* error and has left the body of connect(): its only camera calls are
\* get_host_data and the logout, it selected and requested nothing, and
\* files and directories are as they were when it started.
C26_ConnectFailureIsFatal ==
    (/\ Len(camlog) >= 1
     /\ Len(camlog) < 2 \/ camlog[2][1] # "request_vod_files"
     /\ status = "error" \/ pc # "connected")
    => /\ status = "error"
       /\ pc \in {"logout", "exit"}
       /\ camlog \in {<<<<"get_host_data">>>>, <<<<"get_host_data">>, <<"logout">>>>}
       /\ filtered = <<>> /\ outcome = <<>> /\ ~summary
       /\ files = prev.files /\ dirs = prev.dirs

\* the connect of a second invocation failed, on a destination root that
\* holds the file of the first
C26_Witness ==
    /\ run = 2 /\ pc = "exit" /\ status = "error" /\ ~dry_run
    /\ camlog = <<<<"get_host_data">>, <<"logout">>>>
    /\ files # <<>> /\ files = prev.files

\* C27: in a first, non-dry run on an empty destination root two different
\* selected recordings never have the same destination path, and a recording
\* is skipped only as a repetition of the same recording, never because of a
\* file another recording wrote.
C27_DistinctDestinations ==
    (run = 1 /\ ~dry_run /\ pc \in InLoop \cup {"logout", "exit"}) =>
        /\ \A j, k \in 1..Len(filtered) :
              filtered[j] # filtered[k] => DestPath(filtered[j]) # DestPath(filtered[k])
        /\ \A k \in 1..Len(outcome) :
              outcome[k] = "skipped" => \E j \in 1..(k - 1) : filtered[j] = filtered[k]

\* C28: when creating the destination directory or testing the destination
\* file fails for a recording, that recording is counted failed and the loop
\* goes on: to the next recording, or to the summary after the last one.
C28_PrepareFailureIsPerRecording ==
    [][(pc = "loop" /\ run' = run) =>
         \/ pc' = "request" /\ outcome' = outcome
         \/ /\ Len(outcome') = Len(outcome) + 1
            /\ outcome'[Len(outcome')] \in {"skipped", "failed"}
            /\ outcome'[Len(outcome')] = "failed" => failed' = failed + 1
            /\ status' # "error"
            /\ IF i < Len(filtered) THEN pc' = "loop" /\ i' = i + 1
                                    ELSE pc' = "logout" /\ summary']_vars

\* what the loop does instead: an exception at the loop head ends the
\* invocation in error, with no outcome for this or any later recording and
\* no summary
C28_PrepareFailureAborts ==
    [][(/\ pc = "loop" /\ Len(outcome') = Len(outcome) /\ pc' # "request")
       => /\ pc' = "logout" /\ status' = "error" /\ ~summary'
          /\ failed' = failed /\ outcome' = outcome]_vars

\* C29: a download attempt begins with no file at its destination path, the
\* file there during the transfer is the one this attempt created, and every
\* step of an invocation leaves every file unchanged except the file of the
\* attempt in progress.
C29_OnlyOwnFileTouched ==
    /\ [](/\ pc \in {"request", "open"} => Path \notin DOMAIN files
          /\ pc = "stream" => /\ Path \in DOMAIN files
                              /\ files[Path] = [owner |-> Cur.file_name, bytes |-> received])
    /\ [][\A p \in DOMAIN files :
            \/ p \in DOMAIN files' /\ files'[p] = files[p]
            \/ pc = "stream" /\ p = Path]_vars

\* the second recording's attempt failed and its file was removed, next to
\* the file of the first recording, which is whole
C29_Witness ==
    /\ pc = "exit" /\ ~dry_run /\ outcome = <<"downloaded", "failed">>
    /\ last.written > 0
    /\ DOMAIN files = {DestPath(filtered[1])}
    /\ DestPath(filtered[2]) # DestPath(filtered[1])
    /\ SubSeq(DestPath(filtered[2]), 1, 2) = SubSeq(DestPath(filtered[1]), 1, 2)
    /\ files[DestPath(filtered[1])].bytes = filtered[1].length

\* the recordings of vods that match trigger_filter, in catalogue order
Matches == filter_vods(vods, trigger_filter)

\* C16: the recordings handed to the loop (or listed by a dry run) are the
\* matches of the filter when there is no limit, and with a limit N the N
\* most recent among the matches: min(N, number of matches) of them, each a
\* match, in descending start_time order, no match left out starting later
\* than one taken.
C16_FilterThenLimit ==
    [][(pc = "connected" /\ status' # "error")
       => IF latest = None THEN filtered' = Matches
          ELSE /\ Len(filtered') = IF Val(latest) < Len(Matches)
                                   THEN Val(latest) ELSE Len(Matches)
               /\ \A a \in 1..Len(filtered') :
                    /\ \E k \in 1..Len(Matches) : Matches[k] = filtered'[a]
                    /\ \A b \in (a + 1)..Len(filtered') :
                         ~DtLess(filtered'[a].start_time, filtered'[b].start_time)
                    /\ \A k \in 1..Len(Matches) :
                         (\A b \in 1..Len(filtered') : filtered'[b] # Matches[k])
                         => ~DtLess(filtered'[a].start_time,
                                    Matches[k].start_time)]_vars

\* the most recent recording of the catalogue does not match the filter,
\* and the one handed to the loop is the most recent match
C16_Witness ==
    /\ vods = <<VodA, VodD>> /\ trigger_filter = Some(PERSON)
    /\ latest = Some(1) /\ ~dry_run
    /\ pc = "loop" /\ filtered = <<VodA>>

\* C8: filter_vods with no filter returns its input; with a mask it returns,
\* in input order, exactly the recordings whose triggers meet the mask, and
\* none of them is classified NONE.
C8_FilterIsMaskTest ==
    (call.fn = "filter_vods" /\ ret # None)
    => LET vs == call.vods
           out == Val(ret)
       IN IF call.f = None THEN out = vs
          ELSE LET K == {k \in 1..Len(vs) :
                           get_vod_triggers(vs[k]) \cap Val(call.f) # {}}
               IN /\ Len(out) = Cardinality(K)
                  /\ \E idx \in [1..Len(out) -> K] :
                       /\ \A a, b \in 1..Len(out) : a < b => idx[a] < idx[b]
                       /\ \A a \in 1..Len(out) : out[a] = vs[idx[a]]
                  /\ \A a \in 1..Len(out) : get_vod_triggers(out[a]) # NONE

C8_Witness ==
    /\ call.fn = "filter_vods" /\ ret # None
    /\ call.f = Some(PERSON \cup VEHICLE)
    /\ Len(call.vods) = 2 /\ Len(Val(ret)) = 1
    /\ get_vod_triggers(call.vods[1]) = NONE
    /\ get_vod_triggers(call.vods[2]) = VEHICLE \cup PET

\* C9: get_vod_triggers returns the reported trigger set whenever it is not
\* NONE, whatever the file name decodes to, and the decode of the file name
\* when it is NONE.
C9_ReportedTriggersWin ==
    (call.fn = "get_vod_triggers" /\ ret # None)
    => IF call.vod.triggers # NONE
       THEN Val(ret) = call.vod.triggers
       ELSE Val(ret) = parse_triggers_from_filename(call.vod.file_name)

C9_Witness ==
    /\ call.fn = "get_vod_triggers" /\ ret = Some(PET)
    /\ parse_triggers_from_filename(call.vod.file_name) = PERSON \cup MOTION

\* the hex digits with bit 2, bit 0 and bit 3 set
HexWithBit4 == {"4", "5", "6", "7", "C", "D", "E", "F", "c", "d", "e", "f"}
HexWithBit1 == {"1", "3", "5", "7", "9", "B", "D", "F", "b", "d", "f"}
HexWithBit8 == {"8", "9", "A", "B", "C", "D", "E", "F", "a", "b", "c", "d", "e", "f"}
HexChars ==
    {"0", "1", "2", "3", "4", "5", "6", "7", "8", "9", "A", "B", "C", "D", "E",
     "F", "a", "b", "c", "d", "e", "f"}

\* C10: for a name of at least 6 parts whose second-to-last part has at
\* least 7 characters with hex digits T, U, R at positions 4, 5, 6, the
\* result holds PERSON iff T&4, VEHICLE iff T&1, PET iff U&8, TIMER iff U&1,
\* MOTION iff R&8 and nothing else, whatever the layout of the name.
C10_DecodeOfNibbles ==
    (call.fn = "parse_triggers_from_filename" /\ ret # None)
    => LET field == call.parts[Len(call.parts) - 1]
       IN (Len(call.parts) >= 6 /\ Len(field) >= 7
             /\ {field[5], field[6], field[7]} \subseteq HexChars)
          => Val(ret) =
               {x \in AllFlags :
                  \/ x = "PERSON" /\ field[5] \in HexWithBit4
                  \/ x = "VEHICLE" /\ field[5] \in HexWithBit1
                  \/ x = "PET" /\ field[6] \in HexWithBit8
                  \/ x = "TIMER" /\ field[6] \in HexWithBit1
                  \/ x = "MOTION" /\ field[7] \in HexWithBit8}

C10_Witness ==
    /\ call.fn = "parse_triggers_from_filename" /\ ret = Some(VEHICLE \cup PET)
    /\ Len(call.parts) = 7
    /\ call.parts[6] = <<"6", "D", "2", "8", "9", "8", "0", "0", "0", "0">>

\* C11: parse_triggers_from_filename returns a trigger set for every name
\* and never raises; the result is NONE when the basename has fewer than 6
\* parts, when the flags field has fewer than 7 characters, or when one of
\* its characters at positions 4, 5, 6 is no hex digit.
C11_FailSoft ==
    (call.fn = "parse_triggers_from_filename" /\ ret # None)
    => /\ Val(ret) \in TriggerSets
       /\ (\/ Len(call.parts) < 6
           \/ Len(call.parts[Len(call.parts) - 1]) < 7
           \/ \E k \in NibbleOffset..(NibbleOffset + 2) :
                call.parts[Len(call.parts) - 1][k] \notin HexChars)
          => Val(ret) = NONE

\* the part of C11 that holds: a trigger set is always returned, and it is
\* NONE for too few parts, a short field, or a character at positions 4, 5,
\* 6 that int(c, 16) rejects
C11_FailSoftWhereIntRejects ==
    (call.fn = "parse_triggers_from_filename" /\ ret # None)
    => /\ Val(ret) \in TriggerSets
       /\ (\/ Len(call.parts) < 6
           \/ Len(call.parts[Len(call.parts) - 1]) < 7
           \/ \E k \in NibbleOffset..(NibbleOffset + 2) :
                HexVal(call.parts[Len(call.parts) - 1][k]) = -1)
          => Val(ret) = NONE

\* C12: build_trigger_filter returns None exactly when all_triggers is true
\* or none of person, vehicle, pet, motion is true.
C12_NoFilterIffAllOrNothing ==
    (call.fn = "build_trigger_filter" /\ ret # None)
    => (Val(ret) = None
        <=> (call.all_triggers
             \/ ~(call.person \/ call.vehicle \/ call.pet \/ call.motion)))

C12_Witness ==
    /\ call.fn = "build_trigger_filter" /\ ret = Some(None)
    /\ call.all_triggers /\ call.person /\ call.motion

\* the OR of the bits of the selections that are true
SelectedBits ==
    {x \in AllFlags : \/ x = "PERSON" /\ call.person
                      \/ x = "VEHICLE" /\ call.vehicle
                      \/ x = "PET" /\ call.pet
                      \/ x = "MOTION" /\ call.motion}

\* C13: with all_triggers false and a selection made, build_trigger_filter
\* returns exactly the OR of the selected bits; whatever the input, a mask
\* it returns has no TIMER bit and is not NONE.
C13_MaskIsOrOfSelections ==
    (call.fn = "build_trigger_filter" /\ ret # None)
    => /\ (~call.all_triggers
           /\ (call.person \/ call.vehicle \/ call.pet \/ call.motion))
          => Val(ret) = Some(SelectedBits)
       /\ Val(ret) # None
          => /\ "TIMER" \notin Val(Val(ret))
             /\ Val(Val(ret)) # NONE
             /\ Val(Val(ret)) \in TriggerSets

C13_Witness ==
    /\ call.fn = "build_trigger_filter" /\ ~call.all_triggers
    /\ call.vehicle /\ call.pet /\ ~call.person /\ ~call.motion
    /\ ret = Some(Some(VEHICLE \cup PET))

\* C14: apply_latest with no limit returns its input; with a limit N >= 0
\* it returns min(N, len) of the recordings, sorted by start_time
\* descending, none of them starting earlier than a recording left out.
C14_LatestAreTheMostRecent ==
    (call.fn = "apply_latest" /\ ret # None)
    => LET vs == call.vods
           out == Val(ret)
       IN IF call.limit = None THEN out = vs
          ELSE Val(call.limit) >= 0
               => /\ Len(out) = IF Val(call.limit) < Len(vs)
                                THEN Val(call.limit) ELSE Len(vs)
                  /\ \A a, b \in 1..Len(out) :
                       a < b => ~DtLess(out[a].start_time, out[b].start_time)
                  /\ \E idx \in [1..Len(out) -> 1..Len(vs)] :
                       /\ \A a, b \in 1..Len(out) : a # b => idx[a] # idx[b]
                       /\ \A a \in 1..Len(out) : out[a] = vs[idx[a]]
                       /\ \A k \in 1..Len(vs) :
                            (\A a \in 1..Len(out) : idx[a] # k)
                            => \A a \in 1..Len(out) :
                                 ~DtLess(out[a].start_time, vs[k].start_time)

C14_Witness ==
    /\ call.fn = "apply_latest" /\ call.limit = Some(2)
    /\ call.vods = <<TimedVod("a", 20, 8), TimedVod("b", 20, 10),
                     TimedVod("d", 20, 12)>>
    /\ ret = Some(<<TimedVod("d", 20, 12), TimedVod("b", 20, 10)>>)

\* C15: for a limit of 0 and for every negative limit apply_latest returns
\* the empty sequence (the code has no precondition failure to signal).
C15_NonPositiveLimitGivesNothing ==
    (call.fn = "apply_latest" /\ ret # None /\ call.limit # None)
    => (Val(call.limit) <= 0 => Val(ret) = <<>>)

\* the part of C15 that holds: a limit of 0 gives the empty sequence
C15_ZeroLimitGivesNothing ==
    (call.fn = "apply_latest" /\ ret # None /\ call.limit = Some(0))
    => Val(ret) = <<>>

\* the name of the first of PERSON, VEHICLE, PET, MOTION in t
PrimaryOf(t) ==
    IF "PERSON" \in t THEN "person"
    ELSE IF "VEHICLE" \in t THEN "vehicle"
    ELSE IF "PET" \in t THEN "pet"
    ELSE IF "MOTION" \in t THEN "motion"
    ELSE "recording"

\* HHMMSS of a datetime, digit by digit
HHMMSS(dt) == TwoDigits(dt.hour) \o TwoDigits(dt.minute) \o TwoDigits(dt.second)

\* C17: get_primary_trigger_name returns the name of the first bit set in
\* the order PERSON, VEHICLE, PET, MOTION and "recording" when none of them
\* is set; make_output_filename is "{primary}_{start HHMMSS}_{end HHMMSS}.mp4"
\* with the primary name of the recording's classification.
C17_PrimaryNameAndFilename ==
    /\ (call.fn = "get_primary_trigger_name" /\ ret # None)
       => Val(ret) = PrimaryOf(call.triggers)
    /\ (call.fn = "make_output_filename" /\ ret # None)
       => Val(ret) = PrimaryOf(get_vod_triggers(call.vod)) \o "_"
                     \o HHMMSS(call.vod.start_time) \o "_"
                     \o HHMMSS(call.vod.end_time) \o ".mp4"

C17_Witness ==
    /\ call.fn = "make_output_filename"
    /\ call.vod.triggers = VEHICLE \cup PERSON
    /\ call.vod.start_time = Datetime(2026, 2, 20, 10, 30, 0)
    /\ call.vod.end_time = Datetime(2026, 2, 20, 10, 45, 0)
    /\ ret = Some("person_103000_104500.mp4")

\* the fallback name for a TIMER-only trigger set
C17_WitnessRecording ==
    /\ call.fn = "get_primary_trigger_name" /\ call.triggers = TIMER
    /\ ret = Some("recording")

\* the strings made of ASCII decimal digits, not all of them 0, followed by
\* one of m, h, d
AsciiDigits == {"0", "1", "2", "3", "4", "5", "6", "7", "8", "9"}
PositiveAmountAndUnit(t) ==
    /\ Len(t) >= 2
    /\ t[Len(t)] \in {"m", "h", "d"}
    /\ \A k \in 1..(Len(t) - 1) : t[k] \in AsciiDigits \cup {"U+0665"}
    /\ \E k \in 1..(Len(t) - 1) : t[k] # "0"

\* end - start of a returned pair, in minutes (the seconds divide evenly)
SpanMinutes(w) ==
    (w.end.ord - w.start.ord) * (SecondsPerDay \div 60)
    + (w.end.sec - w.start.sec) \div 60

\* C20: parse_since returns a pair exactly for the strings made of a
\* positive integer and one unit character m, h or d, with end - start =
\* amount * 60, 3600 or 86400 seconds, and raises an error for every other
\* string.
C20_SinceAcceptsPositiveAmounts ==
    (call.fn = "parse_since" /\ ret # None)
    => IF PositiveAmountAndUnit(call.since_str)
       THEN LET t == call.since_str
                amount == IntOfDigits(SubSeq(t, 1, Len(t) - 1))
            IN /\ ~IsRaised(Val(ret))
               /\ Val(ret).end = call.now
               /\ (Val(ret).end.sec - Val(ret).start.sec) % 60 = 0
               /\ SpanMinutes(Val(ret)) =
                    amount * (CASE t[Len(t)] = "m" -> 1 [] t[Len(t)] = "h" -> 60
                                [] t[Len(t)] = "d" -> 1440)
       ELSE IsRaised(Val(ret))

\* the part of C20 that holds: the same, for the amounts whose span does not
\* reach back before 0001-01-01; every other string raises ValueError
C20_SinceWithinDatetimeRange ==
    (call.fn = "parse_since" /\ ret # None)
    => IF PositiveAmountAndUnit(call.since_str)
       THEN LET t == call.since_str
                amount == IntOfDigits(SubSeq(t, 1, Len(t) - 1))
            IN (t[Len(t)] = "d" => amount < call.now.ord)
               => /\ ~IsRaised(Val(ret))
                  /\ Val(ret).end = call.now
                  /\ (Val(ret).end.sec - Val(ret).start.sec) % 60 = 0
                  /\ SpanMinutes(Val(ret)) =
                       amount * (CASE t[Len(t)] = "m" -> 1
                                   [] t[Len(t)] = "h" -> 60
                                   [] t[Len(t)] = "d" -> 1440)
       ELSE Val(ret) = Raised("ValueError")

(***************************************************************************)
(* The command line of `download`: run() validates the time arguments,     *)
(* _run() turns them into a time range, then connects.                     *)
(***************************************************************************)
\* where the camera's address and password can come from: the command line
\* and the environment (.env)
Settings ==
    {[host |-> h, password |-> p, env_host |-> eh, env_password |-> ep]
     : h \in {None, Some("cam")}, p \in {None, Some("pw")},
       eh \in {None, Some("cam")}, ep \in {None, Some("pw")}}

TimeArgs ==
    {[date |-> d, from_date |-> f, to_date |-> t, since |-> s]
     : d \in {None, Some("2026-02-20"), Some("today"), Some("20.02.2026")},
       f \in {None, Some("2026-02-01"), Some("2026-02-20")},
       t \in {None, Some("2026-02-10")},
       s \in {None, Some(<<"2", "h">>), Some(<<"0", "m">>), Some(<<"2", "x">>)}}

RunCalls ==
    {[fn |-> "run", host |-> c.host, password |-> c.password,
      env_host |-> c.env_host, env_password |-> c.env_password,
      date |-> a.date, from_date |-> a.from_date, to_date |-> a.to_date,
      since |-> a.since] : c \in Settings, a \in TimeArgs}

\* `a or b` of two optional strings
OrElse(a, b) == IF a # None THEN a ELSE b

\* variant of resolve_config: the host falls back to a default address
resolve_config_defaulthost(c) ==
    [host |-> OrElse(OrElse(c.host, c.env_host), Some("192.168.1.1")),
     password |-> OrElse(c.password, c.env_password)]

\* resolve_config(args): the command line, else the environment
resolve_config(c) ==
    [host |-> OrElse(c.host, c.env_host),
     password |-> OrElse(c.password, c.env_password)]

InitCli ==
    /\ call \in RunCalls
    /\ ret = None
    /\ vods \in {v \in SeqsUpTo(MaxVods) : Len(v) <= 1}
    /\ trigger_filter = None
    /\ latest = None
    /\ dry_run \in BOOLEAN
    /\ progress = FALSE
    /\ pc = "main"
    /\ filtered = <<>> /\ i = 1 /\ downloaded = 0 /\ failed = 0
    /\ dl = "none" /\ received = 0 /\ files = <<>> /\ dirs = {}
    /\ camlog = <<>> /\ outcome = <<>> /\ last = NoLast /\ summary = FALSE
    /\ status = "running" /\ run = 1 /\ prev = NoPrev

\* main(): a command line without host or without password is an error
\* (print_error, sys.exit(1)); otherwise the command's run() is called
Main ==
    /\ pc = "main"
    /\ LET config == resolve_config(call)
       IN IF config.host = None \/ config.password = None
          THEN pc' = "exit" /\ status' = "usage"
          ELSE pc' = "cli" /\ UNCHANGED status
    /\ UNCHANGED <<args, dry_run, filtered, i, downloaded, failed, dl, received,
                   files, dirs, camlog, outcome, last, summary, run, prev,
                   pureVars>>

\* run(): the two checks of the time arguments; print_error and sys.exit(1)
Validate ==
    /\ pc = "cli"
    /\ IF \/ (call.from_date # None \/ call.to_date # None)
             /\ ~(call.from_date # None /\ call.to_date # None)
          \/ call.since # None /\ (call.date # None \/ call.from_date # None)
       THEN pc' = "exit" /\ status' = "usage"
       ELSE pc' = "args" /\ UNCHANGED status
    /\ UNCHANGED <<args, dry_run, filtered, i, downloaded, failed, dl, received,
                   files, dirs, camlog, outcome, last, summary, run, prev,
                   pureVars>>

\* _run(): "Determine time range"; an exception of the parsers leaves _run
\* before connect() is entered
TimeRange ==
    /\ pc = "args"
    /\ \E now \in NowChoices :
         LET range == IF call.since # None
                      THEN parse_since(Val(call.since), now)
                      ELSE parse_date_range(call.date, call.from_date,
                                            call.to_date, now)
         IN /\ ret' = Some(range)
            /\ IF IsRaised(range)
               THEN pc' = "exit" /\ status' = "error"
               ELSE pc' = "start" /\ UNCHANGED status
    /\ UNCHANGED <<args, dry_run, filtered, i, downloaded, failed, dl, received,
                   files, dirs, camlog, outcome, last, summary, run, prev, call>>

NextCli ==
    \/ Main
    \/ Validate
    \/ TimeRange
    \/ Next

SpecCli == InitCli /\ [][NextCli]_vars

\* how many of --date, --from/--to, --since are given
WindowsGiven ==
    Cardinality({w \in {"date", "range", "since"} :
                   \/ w = "date" /\ call.date # None
                   \/ w = "range" /\ call.from_date # None /\ call.to_date # None
                   \/ w = "since" /\ call.since # None})

\* C19: an invocation given more than one of --date, the --from/--to pair
\* and --since ends in a usage error, with no call made to the camera.
C19_OneWindowOnly ==
    (call.fn = "run" /\ WindowsGiven > 1 /\ pc \notin {"main", "cli"})
    => (pc = "exit" /\ status = "usage" /\ camlog = <<>>)

\* the part of C19 that holds: --since together with --date or with
\* --from/--to is a usage error before any call to the camera, and so is
\* one of --from, --to without the other
C19_SinceExcludesOthers ==
    (/\ call.fn = "run" /\ pc \notin {"main", "cli"}
     /\ \/ call.since # None /\ (call.date # None \/ call.from_date # None
                                  \/ call.to_date # None)
        \/ (call.from_date = None) # (call.to_date = None))
    => (pc = "exit" /\ status = "usage" /\ camlog = <<>>)

\* a --since value that is not digits followed by one of m, h, d
MalformedSince(str) ==
    ~(/\ Len(str) >= 2
      /\ str[Len(str)] \in {"m", "h", "d"}
      /\ \A k \in 1..(Len(str) - 1) : str[k] \in AsciiDigits)

\* the invocations C25 is about
UsageError ==
    \/ call.host = None /\ call.env_host = None
    \/ call.password = None /\ call.env_password = None
    \/ (call.from_date = None) # (call.to_date = None)
    \/ call.since # None /\ MalformedSince(Val(call.since))

StartNotAfterEnd(range) ==
    \/ range.start.ord < range.end.ord
    \/ range.start.ord = range.end.ord /\ range.start.sec <= range.end.sec

\* C30: every window resolved from time arguments that passed run()'s
\* checks and the parsers has start <= end.
C30_WindowStartsBeforeEnd ==
    (call.fn = "run" /\ ret # None /\ ~IsRaised(Val(ret))) => StartNotAfterEnd(Val(ret))

\* the part of C30 that holds: the windows of --date, of --since and of no
\* time argument have start <= end
C30_WindowWithoutFromTo ==
    (call.fn = "run" /\ ret # None /\ ~IsRaised(Val(ret)) /\ call.from_date = None)
    => StartNotAfterEnd(Val(ret))

====
